---- MODULE Spec2Model ----
(***************************************************************************)
(* Model of the solfege tuner: the Solfege utilities (flatChromatics,      *)
(* sharpChromatics, solfegeSyllables, getChromaticScale, getSolfege) and   *)
(* the App component's detection loop (init, getUserMedia, updatePitch,    *)
(* startLoop, stopLoop, stopAnalysing, the root buttons and the [root]     *)
(* effect).                                                                *)
(*                                                                         *)
(* A JavaScript string is a sequence of one-character strings, so that the *)
(* digit-stripping regular expression is computed rather than assumed.     *)
(* A frequency is an integer number of millihertz standing for the double  *)
(* nearest to it; the published pitch is the string toFixed(2) makes of it.*)
(***************************************************************************)
EXTENDS Integers, Sequences, FiniteSets, TLC

\* ------------------------------------------------------------------ bounds

\* Largest number of button clicks (Start, Stop, a root button) in one run of
\* the page. Frames, ticks and capture completions are not counted. Every
\* request and every pending promise is made in a click, so this bounds the
\* outstanding requestAnimationFrame requests and the pending getUserMedia
\* promises too.
MaxClicks == 4

\* Largest octave number of the notes given to getSolfege on its own.
MaxOctave == 10

\* ----------------------------------------------------------- Solfege tables

flatChromatics ==
    << <<"C">>, <<"D", "b">>, <<"D">>, <<"E", "b">>, <<"E">>, <<"F">>,
       <<"G", "b">>, <<"G">>, <<"A", "b">>, <<"A">>, <<"B", "b">>, <<"B">> >>

sharpChromatics ==
    << <<"C">>, <<"C", "#">>, <<"D">>, <<"D", "#">>, <<"E">>, <<"F">>,
       <<"F", "#">>, <<"G">>, <<"G", "#">>, <<"A">>, <<"A", "#">>, <<"B">> >>

solfegeSyllables ==
    <<"do", "ra", "re", "me", "mi", "fa", "se", "sol", "le", "la", "te", "ti">>

\* The JavaScript value undefined (an array read outside 0..length-1).
Undefined == "undefined"

\* The characters the regular expression class \d matches.
Digits == {"0", "1", "2", "3", "4", "5", "6", "7", "8", "9"}

\* Array.prototype.includes
includes(arr, x) == \E i \in 1..Len(arr) : arr[i] = x

\* Array.prototype.indexOf: the first 0-based index of x, or -1.
indexOf(arr, x) ==
    IF includes(arr, x)
    THEN (CHOOSE i \in 1..Len(arr) :
              arr[i] = x /\ \A j \in 1..(i - 1) : arr[j] # x) - 1
    ELSE -1

\* Indexing that counts a negative index from the end of the array.
atFromEnd(arr, i) ==
    IF i \in 0..(Len(arr) - 1)
    THEN arr[i + 1]
    ELSE IF -i \in 1..Len(arr) THEN arr[Len(arr) + i + 1] ELSE Undefined

\* arr[i] of JavaScript for a 0-based index i: undefined outside the array.
at(arr, i) == IF i \in 0..(Len(arr) - 1) THEN arr[i + 1] ELSE Undefined

\* getChromaticScale with the wrap-around dropped: the scale runs off the table.
getChromaticScaleNoWrap(flat, sharp, r) ==
    LET startIndex == IF includes(flat, r)
                      THEN indexOf(flat, r)
                      ELSE IF includes(sharp, r)
                           THEN indexOf(sharp, r)
                           ELSE 0
    IN  [i \in 1..Len(flat) |->
            IF startIndex + (i - 1) < Len(flat)
            THEN flat[startIndex + i]
            ELSE flat[Len(flat)]]

\* getChromaticScale without the sharp branch: a sharp root starts at index 0.
getChromaticScaleFlatOnly(flat, sharp, r) ==
    LET startIndex == IF includes(flat, r)
                      THEN indexOf(flat, r)
                      ELSE 0
    IN  [i \in 1..Len(flat) |-> flat[((startIndex + (i - 1)) % Len(flat)) + 1]]

\* The body of getChromaticScale, reading the module's arrays as it finds
\* them (flat, sharp): the scale is a new array, filled by push.
getChromaticScaleOn(flat, sharp, r) ==
    LET startIndex == IF includes(flat, r)
                      THEN indexOf(flat, r)
                      ELSE IF includes(sharp, r)
                           THEN indexOf(sharp, r)
                           ELSE 0
    IN  [i \in 1..Len(flat) |-> flat[((startIndex + (i - 1)) % Len(flat)) + 1]]

\* getChromaticScale on the arrays as the module declares them.
getChromaticScale(r) == getChromaticScaleOn(flatChromatics, sharpChromatics, r)

\* note.replace(/\d+/g, ""): every run of digits is removed.
stripDigits(s) == SelectSeq(s, LAMBDA c : c \notin Digits)

\* getSolfege looking the note up in the unrotated table.
getSolfegeUnrotated(flat, sharp, syllables, n, r) ==
    at(syllables, indexOf(flat, stripDigits(n)))

\* The body of getSolfege, reading the module's arrays as it finds them.
getSolfegeOn(flat, sharp, syllables, n, r) ==
    LET chromaticScale == getChromaticScaleOn(flat, sharp, r)
        cleanNote == stripDigits(n)
        noteIndex == indexOf(chromaticScale, cleanNote)
    IN  at(syllables, noteIndex)

\* getSolfege on the arrays as the module declares them.
getSolfege(n, r) ==
    getSolfegeOn(flatChromatics, sharpChromatics, solfegeSyllables, n, r)

\* ------------------------------------------------------- number formatting

DigitChars == <<"0", "1", "2", "3", "4", "5", "6", "7", "8", "9">>

Digit(d) == DigitChars[d + 1]

RECURSIVE natToString(_)
natToString(k) ==
    IF k < 10 THEN <<Digit(k)>> ELSE Append(natToString(k \div 10), Digit(k % 10))

\* String(n) of an integer, as string concatenation ("pc + o") produces it.
intToString(k) == IF k < 0 THEN <<"-">> \o natToString(-k) ELSE natToString(k)

\* The binary exponent of the frequency mHz / 1000, mHz > 0: the L with
\* 2^L <= mHz / 1000 < 2^(L + 1).
RECURSIVE binaryExponent(_)
binaryExponent(mHz) ==
    IF mHz >= 2000 THEN binaryExponent(mHz \div 2) + 1
    ELSE IF mHz < 1000 THEN binaryExponent(2 * mHz) - 1
    ELSE 0

RECURSIVE pow2mod1000(_)
pow2mod1000(k) == IF k = 0 THEN 1 ELSE (2 * pow2mod1000(k - 1)) % 1000

\* The estimate is a double: the one nearest to mHz / 1000, whose 53-bit
\* significand is mHz * 2^(52 - L) / 1000 rounded to an integer. This is the
\* remainder of that division: 0 when the double is the decimal value itself,
\* below 500 when the double lies below it, above 500 when it lies above (500
\* cannot occur, 2^(52 - L) being a multiple of 8).
significandRemainder(mHz) ==
    ((mHz % 1000) * pow2mod1000(52 - binaryExponent(mHz))) % 1000

\* The hundredths nearest to the double of mHz / 1000, mHz >= 0, the larger
\* one when two are equally near (Number.prototype.toFixed, step "let n be an
\* integer for which n / 10^f - x is as close to zero as possible").
nearestHundredths(mHz) ==
    IF mHz % 10 = 5 /\ significandRemainder(mHz) \in 1..499
    THEN (mHz - 5) \div 10
    ELSE (mHz + 5) \div 10

\* pitch.toFixed(2) of the frequency mHz / 1000: the sign of a negative
\* number, the integer part, the point and two decimals.
toFixed2(mHz) ==
    LET n == nearestHundredths(IF mHz < 0 THEN -mHz ELSE mHz)
    IN  (IF mHz < 0 THEN <<"-">> ELSE <<>>)
            \o natToString(n \div 100)
            \o <<".", Digit((n \div 10) % 10), Digit(n % 10)>>

\* ------------------------------------------------- Note.fromFreq (tonal)

\* Lowest frequency (millihertz) that names each of the MIDI notes 108 (C8) to
\* 119 (B8): 440 Hz * 2^((m - 69 - 0.505) / 12), the 0.005 being freqToMidi's
\* rounding to two decimals ahead of midiToNoteName's Math.round.
TopOctaveFloor ==
    <<4065667, 4307424, 4563557, 4834920, 5122420, 5427014,
      5749722, 6091618, 6453844, 6837610, 7244195, 7674958>>

\* The MIDI number of TopOctaveFloor[1].
TopOctaveMidi == 108

\* Doublings that bring a frequency into the top octave; an octave is a factor 2.
RECURSIVE octavesBelowTop(_)
octavesBelowTop(mHz) ==
    IF mHz >= TopOctaveFloor[1] THEN 0 ELSE 1 + octavesBelowTop(2 * mHz)

RECURSIVE doubled(_, _)
doubled(mHz, k) == IF k = 0 THEN mHz ELSE doubled(2 * mHz, k - 1)

\* Math.round(freqToMidi(freq)) for 0 < freq < 2 * TopOctaveFloor[1].
freqToMidi(mHz) ==
    LET k == octavesBelowTop(mHz)
        f == doubled(mHz, k)
        step == Cardinality({i \in 1..Len(TopOctaveFloor) : TopOctaveFloor[i] <= f})
    IN  TopOctaveMidi + (step - 1) - 12 * k

\* midiToNoteName: the flat pitch class of the semitone number modulo 12, then
\* the octave number floor(midi/12) - 1. Every semitone has a pitch class, the
\* ones below MIDI 0 included.
midiToNoteName(midi) ==
    LET pc == flatChromatics[(midi % 12) + 1]
        o == (midi \div 12) - 1
    IN  pc \o intToString(o)

\* Note.fromFreq: the empty name where the logarithm is not a number.
fromFreq(mHz) == IF mHz <= 0 THEN <<>> ELSE midiToNoteName(freqToMidi(mHz))

\* ------------------------------------------------------------ the App state

VARIABLES
    pitch,              \* useState("261.63"): the published pitch string
    note,               \* useState("C"): the published note name
    solfege,            \* useState("Do"): the published syllable
    root,               \* useState("C"): the RootNote
    started,            \* useState(false)
    mediaStreamSource,  \* useRef: 0 (undefined) or the number of the source node
    connected,          \* the source nodes connected to the analyser
    requestId,          \* useRef: 0 (undefined) or a requestAnimationFrame handle
    rafQueue,           \* the browser's list of animation frame callbacks, in order
    frameLeft,          \* callbacks of the running frame not yet invoked
    pendingCaptures,    \* pending getUserMedia promises: the root of each closure
    lastOp,             \* history: the handler that ran last and its inputs
    chg,                \* history: the last root change and the frame ticks since
    clicks,             \* history: the button clicks so far
    fnRoot,             \* getChromaticScale / getSolfege called alone: the root
    fnNote,             \*   the note
    fnScale,            \*   the scale returned (<<>>: not called)
    fnSolfege,          \*   the syllable returned (NotCalled: not called)
    fnFirst,            \*   history: the first arguments and what they returned
    tables              \* the arrays of Solfege.ts, as the calls find them

appVars == <<pitch, note, solfege, root, started, mediaStreamSource, connected,
             requestId, rafQueue, frameLeft, pendingCaptures, lastOp, chg,
             clicks>>
fnVars == <<fnRoot, fnNote, fnScale, fnSolfege, fnFirst, tables>>
vars == <<appVars, fnVars>>

NotCalled == "not called"

\* The root buttons: scaleButtons renders one button per flatChromatics entry,
\* all with the same handler.
RootButtons == {flatChromatics[i] : i \in 1..Len(flatChromatics)}

\* What autoCorrelate returns, in millihertz: -1 (too quiet), 0 (stands for
\* every falsy result), and frequencies inside and outside (0, 7000) Hz. 10 Hz
\* is a frequency inside the range that Note.fromFreq names in octave -1.
Estimates == {-1000, 0, 10000, 440000, 7000000}

\* --------------------------------------------------- the frame-pacing API

\* window.requestAnimationFrame's handle: a positive number no outstanding
\* request holds (handles are only ever compared for equality).
newHandle(q) ==
    CHOOSE h \in 1..(Len(q) + 1) :
        /\ \A i \in 1..Len(q) : q[i].id # h
        /\ \A g \in 1..(h - 1) : \E i \in 1..Len(q) : q[i].id = g

\* window.cancelAnimationFrame(h): the request leaves the callback list.
cancelAnimationFrame(q, h) == SelectSeq(q, LAMBDA e : e.id # h)

\* ------------------------------------------------------- the loop handlers

\* startLoop that requests a frame whether or not one is pending.
startLoopUnguarded(rid, q, cRoot) ==
    LET h == newHandle(q)
    IN  [requestId |-> h, rafQueue |-> Append(q, [id |-> h, root |-> cRoot])]

\* startLoop that never requests the next frame.
startLoopNever(rid, q, cRoot) == [requestId |-> rid, rafQueue |-> q]

\* startLoop of the render whose root is cRoot, from requestId.current = rid and
\* the callback list q: the values the ref and the list end with.
startLoop(rid, q, cRoot) ==
    IF rid = 0
    THEN LET h == newHandle(q)
         IN  [requestId |-> h, rafQueue |-> Append(q, [id |-> h, root |-> cRoot])]
    ELSE [requestId |-> rid, rafQueue |-> q]

\* stopLoop that gives the handle back without cancelling the request.
stopLoopNoCancel(rid, q) == [requestId |-> 0, rafQueue |-> q, cancelled |-> 0]

stopLoop(rid, q) ==
    IF rid # 0
    THEN [requestId |-> 0, rafQueue |-> cancelAnimationFrame(q, rid), cancelled |-> rid]
    ELSE [requestId |-> rid, rafQueue |-> q, cancelled |-> 0]

\* The range test without "if (pitch)": 0 passes.
inRangeNoTruthTest(est) == est < 7000000 /\ est > -1000

\* The range test without its ceiling.
inRangeNoCeiling(est) == est # 0 /\ est > -1000

\* The range test of updatePitch: "if (pitch)" and "pitch < 7000 && pitch > -1".
inRange(est) == est # 0 /\ est < 7000000 /\ est > -1000

\* updatePitch that publishes the pitch and the note but not the syllable.
updatePitchKeepsSolfege(cRoot, est, q) ==
    LET loop == startLoop(0, q, cRoot)
    IN  /\ IF inRange(est)
           THEN /\ pitch' = toFixed2(est)
                /\ note' = fromFreq(est)
                /\ UNCHANGED solfege
           ELSE UNCHANGED <<pitch, note, solfege>>
        /\ requestId' = loop.requestId
        /\ rafQueue' = loop.rafQueue

\* updatePitch of the render whose root is cRoot, run on the estimate est with q
\* the callback list it finds. The analyser is a module constant, always there.
updatePitch(cRoot, est, q) ==
    LET loop == startLoop(0, q, cRoot)
    IN  /\ IF inRange(est)
           THEN /\ pitch' = toFixed2(est)
                /\ note' = fromFreq(est)
                /\ solfege' = getSolfege(fromFreq(est), cRoot)
           ELSE UNCHANGED <<pitch, note, solfege>>
        /\ requestId' = loop.requestId
        /\ rafQueue' = loop.rafQueue

\* What lastOp records: the handler, whether it ran updatePitch, on which
\* estimate and with which render's root, and the handle it cancelled.
Op(name, ran, est, cRoot, cancelled) ==
    [op |-> name, ran |-> ran, est |-> est, root |-> cRoot, cancelled |-> cancelled]

\* The start button while "Start" is shown: init().
init ==
    /\ ~started
    /\ frameLeft = 0
    /\ clicks < MaxClicks
    /\ started' = TRUE
    /\ IF mediaStreamSource = 0
       THEN /\ pendingCaptures' = Append(pendingCaptures, root)
            /\ lastOp' = Op("init", FALSE, 0, root, 0)
            /\ UNCHANGED <<pitch, note, solfege, connected, requestId, rafQueue>>
       ELSE /\ connected' = connected \cup {mediaStreamSource}
            /\ \E est \in Estimates :
                  /\ updatePitch(root, est, rafQueue)
                  /\ lastOp' = Op("init", TRUE, est, root, 0)
            /\ UNCHANGED pendingCaptures
    /\ clicks' = clicks + 1
    /\ UNCHANGED <<root, mediaStreamSource, frameLeft, chg, fnVars>>

\* stopAnalysing that also blanks the published pitch, note and syllable.
stopAnalysingClearsPublished ==
    /\ started
    /\ frameLeft = 0
    /\ clicks < MaxClicks
    /\ clicks' = clicks + 1
    /\ LET s == stopLoop(requestId, rafQueue)
       IN  /\ requestId' = s.requestId
           /\ rafQueue' = s.rafQueue
           /\ lastOp' = Op("stop", FALSE, 0, root, s.cancelled)
           /\ IF mediaStreamSource # 0 /\ mediaStreamSource \notin connected
              THEN UNCHANGED <<connected, started>>
              ELSE /\ connected' = connected \ {mediaStreamSource}
                   /\ started' = FALSE
    /\ pitch' = <<>>
    /\ note' = <<>>
    /\ solfege' = Undefined
    /\ UNCHANGED <<root, mediaStreamSource, frameLeft, pendingCaptures, chg,
                   fnVars>>

\* stopAnalysing that also puts the root back to C.
stopAnalysingResetsRoot ==
    /\ started
    /\ frameLeft = 0
    /\ clicks < MaxClicks
    /\ clicks' = clicks + 1
    /\ LET s == stopLoop(requestId, rafQueue)
       IN  /\ requestId' = s.requestId
           /\ rafQueue' = s.rafQueue
           /\ lastOp' = Op("stop", FALSE, 0, root, s.cancelled)
           /\ IF mediaStreamSource # 0 /\ mediaStreamSource \notin connected
              THEN UNCHANGED <<connected, started>>
              ELSE /\ connected' = connected \ {mediaStreamSource}
                   /\ started' = FALSE
    /\ root' = flatChromatics[1]
    /\ UNCHANGED <<pitch, note, solfege, mediaStreamSource, frameLeft,
                   pendingCaptures, chg, fnVars>>

\* stopAnalysing that leaves the stream connected.
stopAnalysingNoDisconnect ==
    /\ started
    /\ frameLeft = 0
    /\ clicks < MaxClicks
    /\ clicks' = clicks + 1
    /\ LET s == stopLoop(requestId, rafQueue)
       IN  /\ requestId' = s.requestId
           /\ rafQueue' = s.rafQueue
           /\ lastOp' = Op("stop", FALSE, 0, root, s.cancelled)
           /\ connected' = connected
           /\ started' = FALSE
    /\ UNCHANGED <<pitch, note, solfege, root, mediaStreamSource, frameLeft,
                   pendingCaptures, chg, fnVars>>

\* The start button while "Stop" is shown: stopAnalysing(). disconnect() of a
\* node that is not connected throws, and setStarted(false) is then not reached.
stopAnalysing ==
    /\ started
    /\ frameLeft = 0
    /\ clicks < MaxClicks
    /\ clicks' = clicks + 1
    /\ LET s == stopLoop(requestId, rafQueue)
       IN  /\ requestId' = s.requestId
           /\ rafQueue' = s.rafQueue
           /\ lastOp' = Op("stop", FALSE, 0, root, s.cancelled)
           /\ IF mediaStreamSource # 0 /\ mediaStreamSource \notin connected
              THEN UNCHANGED <<connected, started>>
              ELSE /\ connected' = connected \ {mediaStreamSource}
                   /\ started' = FALSE
    /\ UNCHANGED <<pitch, note, solfege, root, mediaStreamSource, frameLeft,
                   pendingCaptures, chg, fnVars>>

\* A root button: setRoot(r), the render it causes and that render's [root]
\* effect. Setting the state to the value it has causes no render and no effect.
setRoot(r) ==
    /\ frameLeft = 0
    /\ r # root
    /\ clicks < MaxClicks
    /\ clicks' = clicks + 1
    /\ root' = r
    /\ chg' = [running |-> started /\ mediaStreamSource \in connected
                              /\ rafQueue # <<>>,
               ticks |-> 0]
    /\ IF mediaStreamSource # 0
       THEN LET s == stopLoop(requestId, rafQueue)
            IN  \E est \in Estimates :
                   /\ updatePitch(r, est, s.rafQueue)
                   /\ lastOp' = Op("root", TRUE, est, r, s.cancelled)
       ELSE /\ lastOp' = Op("root", FALSE, 0, r, 0)
            /\ UNCHANGED <<pitch, note, solfege, requestId, rafQueue>>
    /\ UNCHANGED <<started, mediaStreamSource, connected, frameLeft,
                   pendingCaptures, fnVars>>

\* The sequence s without its i-th element.
without(s, i) == SubSeq(s, 1, i - 1) \o SubSeq(s, i + 1, Len(s))

\* getUserMedia's promise resolves: the then callback of the render that
\* called init, whose root is pendingCaptures[i].
getUserMediaThen(i) ==
    /\ frameLeft = 0
    /\ i \in 1..Len(pendingCaptures)
    /\ mediaStreamSource' = mediaStreamSource + 1
    /\ connected' = connected \cup {mediaStreamSource + 1}
    /\ \E est \in Estimates :
          /\ updatePitch(pendingCaptures[i], est, rafQueue)
          /\ lastOp' = Op("then", TRUE, est, pendingCaptures[i], 0)
    /\ pendingCaptures' = without(pendingCaptures, i)
    /\ UNCHANGED <<root, started, frameLeft, chg, clicks, fnVars>>

\* getUserMedia's promise rejects: the catch callback alerts, and that is all.
getUserMediaCatch(i) ==
    /\ frameLeft = 0
    /\ i \in 1..Len(pendingCaptures)
    /\ pendingCaptures' = without(pendingCaptures, i)
    /\ lastOp' = Op("catch", FALSE, 0, pendingCaptures[i], 0)
    /\ UNCHANGED <<pitch, note, solfege, root, started, mediaStreamSource,
                   connected, requestId, rafQueue, frameLeft, chg, clicks,
                   fnVars>>

\* The browser begins a frame: the callbacks listed now are the frame's.
beginFrame ==
    /\ frameLeft = 0
    /\ rafQueue # <<>>
    /\ frameLeft' = Len(rafQueue)
    /\ lastOp' = Op("frame", FALSE, 0, root, 0)
    /\ UNCHANGED <<pitch, note, solfege, root, started, mediaStreamSource,
                   connected, requestId, rafQueue, pendingCaptures, chg, clicks,
                   fnVars>>

\* The frame invokes its next callback: updatePitch of the render that
\* requested it. No event handler runs between the callbacks of a frame.
tick(est) ==
    /\ frameLeft > 0
    /\ updatePitch(Head(rafQueue).root, est, Tail(rafQueue))
    /\ frameLeft' = frameLeft - 1
    /\ lastOp' = Op("tick", TRUE, est, Head(rafQueue).root, 0)
    /\ chg' = [chg EXCEPT !.ticks = IF @ < 2 THEN @ + 1 ELSE @]
    /\ UNCHANGED <<root, started, mediaStreamSource, connected,
                   pendingCaptures, clicks, fnVars>>

\* The arrays of Solfege.ts as the module declares them.
ModuleArrays ==
    [flatChromatics |-> flatChromatics,
     sharpChromatics |-> sharpChromatics,
     solfegeSyllables |-> solfegeSyllables]

\* What fnFirst records: the first arguments, the results their first calls
\* returned, and whether a call with another root has been made since.
First(r, n) ==
    [root |-> r, note |-> n, scale |-> <<>>, solfege |-> NotCalled,
     interleaved |-> FALSE]

InitApp ==
    /\ pitch = <<"2", "6", "1", ".", "6", "3">>
    /\ note = <<"C">>
    /\ solfege = "Do"
    /\ root = <<"C">>
    /\ started = FALSE
    /\ mediaStreamSource = 0
    /\ connected = {}
    /\ requestId = 0
    /\ rafQueue = <<>>
    /\ frameLeft = 0
    /\ pendingCaptures = <<>>
    /\ lastOp = Op("mount", FALSE, 0, <<"C">>, 0)
    /\ chg = [running |-> FALSE, ticks |-> 0]
    /\ clicks = 0

Init ==
    /\ InitApp
    /\ fnRoot = <<"C">>
    /\ fnNote = <<"C">>
    /\ fnScale = <<>>
    /\ fnSolfege = NotCalled
    /\ fnFirst = First(fnRoot, fnNote)
    /\ tables = ModuleArrays

Next ==
    \/ init
    \/ stopAnalysing
    \/ \E r \in RootButtons : setRoot(r)
    \/ \E i \in 1..MaxClicks : getUserMediaThen(i)
    \/ \E i \in 1..MaxClicks : getUserMediaCatch(i)
    \/ beginFrame
    \/ \E est \in Estimates : tick(est)

Spec == Init /\ [][Next]_vars

\* Spec with the browser's frame pacing: while callbacks are requested a frame
\* comes, and a frame that has begun invokes each of its callbacks.
SpecFair ==
    /\ Spec
    /\ WF_vars(beginFrame)
    /\ WF_vars(\E est \in Estimates : tick(est))

\* ------------------------------------- the Solfege functions called alone

FlatSet == {flatChromatics[i] : i \in 1..Len(flatChromatics)}
SharpSet == {sharpChromatics[i] : i \in 1..Len(sharpChromatics)}

\* Roots given to the functions: every flat and sharp spelling, and a name
\* that is in neither table.
RootInputs == FlatSet \cup SharpSet \cup {<<"H">>}

\* Notes given to getSolfege: a pitch class alone or followed by an octave.
OctaveSuffixes == {<<>>} \cup {intToString(o) : o \in (-1)..MaxOctave}
NoteInputs == {pc \o suffix : pc \in FlatSet \cup SharpSet, suffix \in OctaveSuffixes}

InitFn ==
    /\ InitApp
    /\ fnRoot \in RootInputs
    /\ fnNote \in NoteInputs
    /\ fnScale = <<>>
    /\ fnSolfege = NotCalled
    /\ fnFirst = First(fnRoot, fnNote)
    /\ tables = ModuleArrays

\* fnFirst after a call with the root r: the result is recorded if it is the
\* first call with the first arguments, and a call with another root made
\* after a first result is noted.
recordCall(r, field, result, unset) ==
    IF r = fnFirst.root
    THEN IF fnFirst[field] = unset
         THEN [fnFirst EXCEPT ![field] = result]
         ELSE fnFirst
    ELSE IF fnFirst.scale # <<>> \/ fnFirst.solfege # NotCalled
         THEN [fnFirst EXCEPT !.interleaved = TRUE]
         ELSE fnFirst

\* A call of getChromaticScale that rotates the module's flat array in place
\* and returns it.
callGetChromaticScaleInPlace ==
    /\ fnScale = <<>>
    /\ fnScale' = getChromaticScaleOn(tables.flatChromatics,
                                      tables.sharpChromatics, fnRoot)
    /\ fnFirst' = recordCall(fnRoot, "scale", fnScale', <<>>)
    /\ tables' = [tables EXCEPT !.flatChromatics = fnScale']
    /\ UNCHANGED <<appVars, fnRoot, fnNote, fnSolfege>>

\* A call of getChromaticScale(fnRoot): it reads the module's arrays and
\* writes only its own new array.
callGetChromaticScale ==
    /\ fnScale = <<>>
    /\ fnScale' = getChromaticScaleOn(tables.flatChromatics,
                                      tables.sharpChromatics, fnRoot)
    /\ fnFirst' = recordCall(fnRoot, "scale", fnScale', <<>>)
    /\ UNCHANGED <<appVars, fnRoot, fnNote, fnSolfege, tables>>

\* A call of getSolfege(fnNote, fnRoot): it reads the module's arrays and
\* writes none.
callGetSolfege ==
    /\ fnSolfege = NotCalled
    /\ fnSolfege' = getSolfegeOn(tables.flatChromatics, tables.sharpChromatics,
                                 tables.solfegeSyllables, fnNote, fnRoot)
    /\ fnFirst' = IF fnNote = fnFirst.note \/ fnRoot # fnFirst.root
                  THEN recordCall(fnRoot, "solfege", fnSolfege', NotCalled)
                  ELSE fnFirst
    /\ UNCHANGED <<appVars, fnRoot, fnNote, fnScale, tables>>

NextFn ==
    \/ callGetChromaticScale
    \/ callGetSolfege

SpecFn == InitFn /\ [][NextFn]_vars

\* ------------------------------- the Solfege functions called repeatedly

\* Notes given to getSolfege when the calls are repeated.
RepeatNotes == {<<"E", "b", "4">>, <<"A", "3">>}

InitRepeat ==
    /\ InitApp
    /\ fnRoot \in RootInputs
    /\ fnNote \in RepeatNotes
    /\ fnScale = <<>>
    /\ fnSolfege = NotCalled
    /\ fnFirst = First(fnRoot, fnNote)
    /\ tables = ModuleArrays

\* The caller drops the results it holds and goes on with other arguments.
nextArguments ==
    /\ \E r \in RootInputs : \E n \in RepeatNotes :
          /\ <<r, n>> # <<fnRoot, fnNote>>
          /\ fnRoot' = r
          /\ fnNote' = n
    /\ fnScale' = <<>>
    /\ fnSolfege' = NotCalled
    /\ UNCHANGED <<appVars, fnFirst, tables>>

NextRepeat ==
    \/ callGetChromaticScale
    \/ callGetSolfege
    \/ nextArguments

SpecRepeat == InitRepeat /\ [][NextRepeat]_vars

\* ------------------------------------------------------------ the claims

\* C1: at most one tick request is outstanding with requestAnimationFrame in
\* every reachable state.
C1_SingleFlight == Len(rafQueue) <= 1

\* A published estimate as the claims define it: present, above 0 and below
\* 7000 Hz.
Publishable(est) == est > 0 /\ est < 7000000

\* C2: once RootNote has changed while detection was running, every frame tick
\* from the second one after the change on that publishes, publishes the
\* syllable of its note under the current RootNote.
C2_PublicationsUseCurrentRoot ==
    (chg.running /\ chg.ticks >= 2 /\ lastOp.op = "tick" /\ Publishable(lastOp.est))
        => solfege = getSolfege(note, root)

\* C3: a RootNote change while started with exactly one tick scheduled cancels
\* that request, runs a tick at once with the new root, and leaves exactly one
\* request outstanding, the one the marker holds, made by the new render.
C3_RestartOnRootChange ==
    [][(root' # root /\ started /\ Len(rafQueue) = 1)
        => /\ lastOp'.op = "root"
           /\ lastOp'.cancelled = rafQueue[1].id
           /\ lastOp'.ran
           /\ lastOp'.root = root'
           /\ Publishable(lastOp'.est) =>
                 /\ note' = fromFreq(lastOp'.est)
                 /\ solfege' = getSolfege(note', root')
           /\ Len(rafQueue') = 1
           /\ rafQueue'[1].root = root'
           /\ requestId' = rafQueue'[1].id]_vars

\* C3's case: a root change during a running session has cancelled the one
\* scheduled tick and one request is outstanding again.
C3_Witness ==
    /\ lastOp.op = "root"
    /\ lastOp.cancelled # 0
    /\ chg.running
    /\ chg.ticks = 0
    /\ Len(rafQueue) = 1
    /\ rafQueue[1].root = root

\* C4: while the started flag is false no tick request is outstanding and no
\* tick handler is about to run.
C4_NoTicksWhileStopped == ~started => (rafQueue = <<>> /\ frameLeft = 0)

\* C5: a stop issued while at most one tick is scheduled leaves no request
\* outstanding, the marker cleared, no stream connected to the analyser and the
\* started flag false.
C5_StopPostState ==
    [][(started /\ lastOp'.op = "stop" /\ Len(rafQueue) <= 1)
        => /\ rafQueue' = <<>>
           /\ requestId' = 0
           /\ connected' = {}
           /\ ~started']_vars

\* C5's case: a stop has cancelled the scheduled tick of a connected session.
C5_Witness ==
    /\ lastOp.op = "stop"
    /\ lastOp.cancelled # 0
    /\ mediaStreamSource # 0
    /\ connected = {}
    /\ rafQueue = <<>>
    /\ ~started

\* C6: after the capture request of a start has failed, the started flag is
\* false and no tick is scheduled.
C6_CaptureFailureLeavesIdle ==
    lastOp.op = "catch" => (~started /\ rafQueue = <<>>)

\* An estimate a tick skips, as the claim defines it: undetected (0, -1) or
\* outside the valid range.
Skipped(est) == est <= 0 \/ est >= 7000000

\* C7: a tick on a skipped estimate leaves pitch, note and syllable unchanged
\* and requests exactly one next tick. For a tick a frame fires: the callback
\* list is the one it found, without the fired request, plus one new request,
\* which the marker holds. For a tick a handler runs at once (init, the capture
\* completion, the root effect): the same, the list it found being the one the
\* handler left.
C7_SkipAndContinue ==
    [][/\ (frameLeft' = frameLeft - 1 /\ Skipped(lastOp'.est))
            => /\ pitch' = pitch /\ note' = note /\ solfege' = solfege
               /\ Len(rafQueue') = Len(rafQueue)
               /\ SubSeq(rafQueue', 1, Len(rafQueue') - 1) = Tail(rafQueue)
               /\ requestId' = rafQueue'[Len(rafQueue')].id
               /\ requestId' # 0
               /\ \A i \in 1..(Len(rafQueue') - 1) : rafQueue'[i].id # requestId'
       /\ (/\ started' # started \/ root' # root \/ pendingCaptures' # pendingCaptures
           /\ lastOp'.ran
           /\ Skipped(lastOp'.est))
            => /\ pitch' = pitch /\ note' = note /\ solfege' = solfege
               /\ rafQueue' # <<>>
               /\ SubSeq(rafQueue', 1, Len(rafQueue') - 1)
                     = cancelAnimationFrame(rafQueue, lastOp'.cancelled)
               /\ requestId' = rafQueue'[Len(rafQueue')].id
               /\ requestId' # 0
               /\ \A i \in 1..(Len(rafQueue') - 1) : rafQueue'[i].id # requestId'
      ]_vars

\* C7's case: a frame tick has just run on the undetected estimate -1 after an
\* earlier tick had published 440 Hz.
C7_Witness ==
    /\ lastOp.op = "tick"
    /\ lastOp.est = -1000
    /\ pitch = <<"4", "4", "0", ".", "0", "0">>
    /\ Len(rafQueue) = 1

\* The 0-based position of a flat pitch class in the canonical list.
FlatIndex(p) == CHOOSE i \in 0..11 : flatChromatics[i + 1] = p

\* C8: for a flat root r, getChromaticScale(r) has 12 elements, element i is
\* flatChromatics[(indexOf(r) + i) mod 12], element 0 is r, and the result is
\* a permutation of the canonical list; C gives the list itself and D gives
\* D, Eb, E, F, Gb, G, Ab, A, Bb, B, C, Db.
C8_ChromaticRotation ==
    (fnScale # <<>> /\ fnRoot \in FlatSet) =>
        /\ Len(fnScale) = 12
        /\ \A i \in 0..11 :
              fnScale[i + 1] = flatChromatics[((FlatIndex(fnRoot) + i) % 12) + 1]
        /\ fnScale[1] = fnRoot
        /\ {fnScale[i] : i \in 1..12} = FlatSet
        /\ Cardinality({fnScale[i] : i \in 1..12}) = 12
        /\ fnRoot = <<"C">> => fnScale = flatChromatics
        /\ fnRoot = <<"D">> =>
              fnScale = << <<"D">>, <<"E", "b">>, <<"E">>, <<"F">>, <<"G", "b">>,
                           <<"G">>, <<"A", "b">>, <<"A">>, <<"B", "b">>, <<"B">>,
                           <<"C">>, <<"D", "b">> >>

\* C8's case: the scale of root D has been computed and wraps round to Db.
C8_Witness ==
    /\ fnRoot = <<"D">>
    /\ fnScale # <<>>
    /\ fnScale[11] = <<"C">>
    /\ fnScale[12] = <<"D", "b">>

\* C9: for a flat pitch class p with a non-negative octave and a flat root r,
\* getSolfege returns solfegeSyllables[(indexOf(p) - indexOf(r)) mod 12]; the
\* root maps to do, Eb over C to me, A over C to la.
C9_SolfegeMapping ==
    (fnSolfege # NotCalled /\ fnRoot \in FlatSet) =>
        /\ \A p \in FlatSet : \A o \in 0..MaxOctave :
              fnNote = p \o intToString(o) =>
                 fnSolfege =
                    solfegeSyllables[((FlatIndex(p) - FlatIndex(fnRoot)) % 12) + 1]
        /\ \A o \in 0..MaxOctave :
              fnNote = fnRoot \o intToString(o) => fnSolfege = "do"
        /\ (fnNote = <<"E", "b", "4">> /\ fnRoot = <<"C">>) => fnSolfege = "me"
        /\ (fnNote = <<"A", "3">> /\ fnRoot = <<"C">>) => fnSolfege = "la"
        /\ (fnNote = <<"C", "4">> /\ fnRoot = <<"C">>) => fnSolfege = "do"

\* C9's case: D4 over the root D has been mapped, to do.
C9_Witness ==
    /\ fnRoot = <<"D">>
    /\ fnNote = <<"D", "4">>
    /\ fnSolfege = "do"

\* The flat spelling of each sharp-spelled pitch class.
Enharmonic(r) ==
    CASE r = <<"C", "#">> -> <<"D", "b">>
      [] r = <<"D", "#">> -> <<"E", "b">>
      [] r = <<"F", "#">> -> <<"G", "b">>
      [] r = <<"G", "#">> -> <<"A", "b">>
      [] r = <<"A", "#">> -> <<"B", "b">>

\* C10: for a sharp-spelled root, getChromaticScale returns the sequence it
\* returns for the enharmonic flat root: it starts at that flat pitch class,
\* runs through the canonical list from there and holds no sharp spelling.
C10_SharpRoots ==
    (fnScale # <<>> /\ fnRoot \in SharpSet \ FlatSet) =>
        /\ fnScale = getChromaticScale(Enharmonic(fnRoot))
        /\ fnScale[1] = Enharmonic(fnRoot)
        /\ \A i \in 0..11 :
              fnScale[i + 1] =
                 flatChromatics[((FlatIndex(Enharmonic(fnRoot)) + i) % 12) + 1]
        /\ \A i \in 1..Len(fnScale) : ~includes(fnScale[i], "#")

\* C10's case: the scale of root F# has been computed and starts at Gb.
C10_Witness ==
    /\ fnRoot = <<"F", "#">>
    /\ fnScale # <<>>
    /\ fnScale[1] = <<"G", "b">>

\* A mapping defect as the claim defines it: the pitch class of the estimate's
\* note has no position 0..11 in the scale of the root r.
MappingDefect(est, r) ==
    indexOf(getChromaticScale(r), stripDigits(fromFreq(est))) \notin 0..11

\* C11: a tick whose estimate is in range but whose note has no position in
\* the scale publishes nothing; pitch, note and syllable keep their previous
\* values.
C11_DefectPublishesNothing ==
    [][(frameLeft' = frameLeft - 1
        /\ Publishable(lastOp'.est)
        /\ MappingDefect(lastOp'.est, lastOp'.root))
          => (pitch' = pitch /\ note' = note /\ solfege' = solfege)]_vars

\* C12: the published pitch, note and syllable are never mixed from two ticks.
\* After a handler has run updatePitch on a publishable estimate, all three are
\* the values of that estimate under the root that run used; in every state the
\* triple is either the one the page starts with or the triple of one single
\* estimate under one single root.
C12_PublishedTripleConsistent ==
    /\ (lastOp.ran /\ Publishable(lastOp.est))
          => /\ pitch = toFixed2(lastOp.est)
             /\ note = fromFreq(lastOp.est)
             /\ solfege = getSolfege(note, lastOp.root)
    /\ \/ <<pitch, note, solfege>>
             = << <<"2", "6", "1", ".", "6", "3">>, <<"C">>, "Do" >>
       \/ \E est \in Estimates :
             /\ Publishable(est)
             /\ pitch = toFixed2(est)
             /\ note = fromFreq(est)
             /\ \E r \in RootButtons : solfege = getSolfege(note, r)

\* C12's case: a frame tick of a render with root D has just published 440 Hz
\* as A4, sol.
C12_Witness ==
    /\ lastOp.op = "tick"
    /\ lastOp.est = 440000
    /\ lastOp.root = <<"D">>
    /\ pitch = <<"4", "4", "0", ".", "0", "0">>
    /\ note = <<"A", "4">>
    /\ solfege = "sol"

\* C13: the root is C when the page is mounted, is one of the 12 flat pitch
\* classes in every state, and changes only in a step of the root-selector
\* handler, to the value of the button pressed; no start, stop, capture
\* completion or tick changes it.
C13_RootOnlyBySelector ==
    /\ root = <<"C">>
    /\ [][/\ root' \in FlatSet
          /\ root' # root => (lastOp'.op = "root" /\ root' \in RootButtons)]_vars

\* C13's case: the root was changed to D, and two frame ticks later it is
\* still D.
C13_Witness ==
    /\ root = <<"D">>
    /\ lastOp.op = "tick"
    /\ chg.ticks = 2
    /\ started

\* C14: a call of getChromaticScale or getSolfege with the arguments of an
\* earlier call returns what that call returned, whatever calls with other
\* roots were made in between, and the arrays flatChromatics, sharpChromatics
\* and solfegeSyllables are in every state as the module declares them.
C14_PureAndRepeatable ==
    /\ tables = ModuleArrays
    /\ (fnRoot = fnFirst.root /\ fnScale # <<>> /\ fnFirst.scale # <<>>)
          => fnScale = fnFirst.scale
    /\ (fnRoot = fnFirst.root /\ fnNote = fnFirst.note
        /\ fnSolfege # NotCalled /\ fnFirst.solfege # NotCalled)
          => fnSolfege = fnFirst.solfege

\* C14's case: both functions were called with the root D, then with another
\* root, and both have been called with the first arguments again.
C14_Witness ==
    /\ fnFirst.root = <<"D">>
    /\ fnFirst.interleaved
    /\ fnRoot = fnFirst.root
    /\ fnNote = fnFirst.note
    /\ fnScale # <<>>
    /\ fnSolfege # NotCalled
    /\ fnFirst.scale[1] = <<"D">>
    /\ fnFirst.solfege \in {"ra", "sol"}

\* C15: the marker requestId is set exactly when a tick request is
\* outstanding, and when set it holds the handle of an outstanding request; a
\* marker cleared while the request it named stays outstanding leaves a state
\* that breaks the first part.
C15_MarkerDiscipline ==
    /\ (requestId # 0) <=> (rafQueue # <<>>)
    /\ requestId # 0 => \E i \in 1..Len(rafQueue) : rafQueue[i].id = requestId

\* C16: the loop never stalls. Every frame tick ends with a new request made,
\* which the marker holds, so the callback list is as long after the tick as
\* before it; and with frames that keep coming, a session that is started with
\* its stream connected and is never stopped runs tick handlers again and
\* again: in every behaviour, infinitely often a tick has just run or no
\* started, connected session exists.
C16_LoopNeverStalls ==
    /\ [][frameLeft' = frameLeft - 1
            => /\ requestId' # 0
               /\ rafQueue' # <<>>
               /\ rafQueue'[Len(rafQueue')].id = requestId'
               /\ Len(rafQueue') = Len(rafQueue)]_vars
    /\ []<>(lastOp.op = "tick" \/ ~(started /\ mediaStreamSource \in connected))

\* C16's case: a running session in which two frame ticks in a row have run and
\* the next one is requested.
C16_Witness ==
    /\ started
    /\ mediaStreamSource \in connected
    /\ lastOp.op = "tick"
    /\ chg.ticks = 2
    /\ Len(rafQueue) = 1
    /\ requestId = rafQueue[1].id

\* C17: a root change made while stopped with nothing scheduled, after an
\* earlier session had connected a stream, runs no tick and schedules none:
\* the callback list, the marker and the published values are as before the
\* change.
C17_RootChangeWhileStoppedIsQuiet ==
    [][(root' # root /\ ~started /\ mediaStreamSource # 0 /\ rafQueue = <<>>)
        => /\ ~lastOp'.ran
           /\ rafQueue' = rafQueue
           /\ requestId' = requestId
           /\ pitch' = pitch /\ note' = note /\ solfege' = solfege]_vars

\* C18: a capture completion that arrives while the started flag is false (the
\* user stopped while the request was pending) connects no stream to the
\* analyser and starts no loop.
C18_LateCompletionIsIgnored ==
    (lastOp.op = "then" /\ ~started)
        => (connected = {} /\ rafQueue = <<>> /\ ~lastOp.ran)

\* C19: after a capture completion, the tick it ran and the request it made
\* are those of the current root, also when the root was changed while the
\* capture request was pending.
C19_CompletionUsesCurrentRoot ==
    lastOp.op = "then"
        => /\ lastOp.root = root
           /\ rafQueue # <<>> => rafQueue[Len(rafQueue)].root = root
           /\ Publishable(lastOp.est) => solfege = getSolfege(note, root)

\* C20: at most one capture request is pending in every reachable state.
C20_OneCaptureRequest == Len(pendingCaptures) <= 1

\* C21: a start issued while a media stream source exists makes no capture
\* request and no new source, connects the existing source to the analyser,
\* runs one tick at once, and leaves exactly one tick request outstanding.
C21_StartReusesSource ==
    [][(~started /\ started' /\ mediaStreamSource # 0)
        => /\ lastOp'.op = "init"
           /\ pendingCaptures' = pendingCaptures
           /\ mediaStreamSource' = mediaStreamSource
           /\ mediaStreamSource \in connected'
           /\ lastOp'.ran
           /\ Len(rafQueue') = 1]_vars

\* C22: a stop leaves the published pitch, note and syllable and the root
\* exactly as they were before it.
C22_StopKeepsPublished ==
    [][(started /\ ~started')
        => /\ lastOp'.op = "stop"
           /\ pitch' = pitch
           /\ note' = note
           /\ solfege' = solfege
           /\ root' = root]_vars

\* C22's case: a session on root D that had published 440 Hz as A4, sol has
\* just been stopped and still shows these values.
C22_Witness ==
    /\ lastOp.op = "stop"
    /\ ~started
    /\ root = <<"D">>
    /\ pitch = <<"4", "4", "0", ".", "0", "0">>
    /\ note = <<"A", "4">>
    /\ solfege = "sol"

\* The 12 syllables of the table.
TableSyllables == {solfegeSyllables[i] : i \in 1..Len(solfegeSyllables)}

\* C23: for every root, a note whose pitch class is not in the flat chromatic
\* list (a sharp-spelled one), alone or followed by any octave, gets no
\* syllable of the table from getSolfege: the result is undefined.
C23_NoWrongSyllable ==
    fnSolfege # NotCalled =>
        \A pc \in SharpSet \ FlatSet : \A suffix \in OctaveSuffixes :
            fnNote = pc \o suffix
                => (fnSolfege = Undefined /\ fnSolfege \notin TableSyllables)

\* C23's case: C#4 over the root D has been looked up and has no syllable.
C23_Witness ==
    /\ fnRoot = <<"D">>
    /\ fnNote = <<"C", "#", "4">>
    /\ fnSolfege = Undefined

\* C24: for every flat pitch class p, every root and every octave o, negative
\* ones included, getSolfege of p followed by o is getSolfege of p alone.
C24_OctaveIndependence ==
    fnSolfege # NotCalled =>
        \A p \in FlatSet : \A o \in (-1)..MaxOctave :
            fnNote = p \o intToString(o) => fnSolfege = getSolfege(p, fnRoot)

\* C25: in every reachable state, the initial one included, the published
\* syllable is one of do, ra, re, me, mi, fa, se, sol, le, la, te, ti.
C25_PublishedSyllableInTable == solfege \in TableSyllables

\* C26: a step changes the published pitch, note or syllable only by running
\* updatePitch on an estimate above 0 and below 7000 Hz, whose pitch it then
\* shows; an estimate that is zero or negative leaves all three as they were,
\* and the published pitch is never the string of a negative number or of 0.
C26_PublicationRange ==
    [][/\ <<pitch, note, solfege>>' # <<pitch, note, solfege>>
            => /\ lastOp'.ran
               /\ lastOp'.est > 0
               /\ lastOp'.est < 7000000
               /\ pitch' = toFixed2(lastOp'.est)
       /\ (lastOp'.ran /\ lastOp' # lastOp /\ lastOp'.est <= 0)
            => <<pitch, note, solfege>>' = <<pitch, note, solfege>>
       /\ pitch'[1] # "-" /\ pitch' # <<"0", ".", "0", "0">>]_vars

\* C26's case: after 440 Hz was published, a frame tick has run on the
\* estimate 0 and the published pitch is still that of 440 Hz.
C26_Witness ==
    /\ lastOp.op = "tick"
    /\ lastOp.est = 0
    /\ pitch = <<"4", "4", "0", ".", "0", "0">>
    /\ note = <<"A", "4">>

====
